---- MODULE Spec2Model ----
(***************************************************************************)
(* A model of sharun (src/main.rs): the launcher that resolves a bundled   *)
(* interpreter and library search path, synthesizes the environment and    *)
(* replaces its own process image with the interpreter.                    *)
(*                                                                         *)
(* Strings are sequences of atoms.  An atom is a TLA+ string standing for  *)
(* one character, or for a run of ordinary characters (no '/', ':', '+',   *)
(* '.', whitespace) that no pattern of the program can split.              *)
(***************************************************************************)
EXTENDS Integers, Sequences, FiniteSets, TLC

VARIABLES
    \* the library path engine on its own (SpecCache)
    genRoot,      \* the library root gen_library_path ran under
    layout,       \* the tree beneath the root: relative directory -> content
    curRoot,      \* where the tree (and its lib.path) is now
    libPathFile,  \* lib.path: [exists, data]
    searchPath,   \* the search path the launch resolved
    cphase,       \* "fresh", "generated", "resolved"
    \* the pure helpers on their own (SpecDirname, SpecEnv)
    dPath,        \* the argument of dirname
    dOut,         \* its result
    dDone,        \* whether dirname has run
    env,          \* the process environment
    envOld,       \* the environment before the last add_to_env
    addKey,       \* the key of the last add_to_env
    addVal,       \* the value of the last add_to_env
    addCount,     \* how many times add_to_env(addKey, addVal) has run
    \* one launch (Spec)
    pc,           \* the position in main
    sharun,       \* env::current_exe()
    argv,         \* env::args(), argv[0] first
    links,        \* the paths that are symbolic links to the launcher
    stub,         \* bin/<name>: [exe, ino]
    target,       \* shared/bin/<name>: [exists, head, sections]
    files,        \* the interpreter files that exist
    caches,       \* library root -> lib.path file [exists, data]
    cachesAtStart, \* the same files as the process found them
    writable,     \* whether the library root is writable
    preload,      \* .preload: [exists, readable, data]
    dotenv,       \* .env: [exists, readable, sets, unsets]
    exec_args,    \* the arguments still to forward
    sharun_dir,   \* the bundle root
    arg0_path,    \* the resolved invocation path
    bin_name,     \* the resolved launcher or target name
    is_elf32_bin, \* the result of the ELF class probe
    library_path, \* the library root, then the resolved search path
    interpreter,  \* the interpreter's path
    unset_envs,   \* the variables .env asks to unset
    is_pyinstaller_elf, \* whether the target has the section "pydata"
    interpreter_args, \* the interpreter's argument vector
    backend,      \* "none", "command", "execve", "userland"
    image,        \* the program the process replacement was called with
    execFailed,   \* whether a process replacement was called and failed
    genBy,        \* what ran gen_library_path: "none", "option", "lazy"
    stdout,       \* what was printed on the standard output
    diag,         \* the diagnostics printed on the standard error
    exitCode      \* the exit status, -1 while the process runs

cacheVars == <<genRoot, layout, curRoot, libPathFile, searchPath, cphase>>
dirnameVars == <<dPath, dOut, dDone>>
envVars == <<env, envOld, addKey, addVal, addCount>>
envAux == <<envOld, addKey, addVal, addCount>>
invVars == <<sharun, argv, links>>
fsVars == <<stub, target, files, caches, cachesAtStart, writable, preload, dotenv>>
nameVars == <<sharun_dir, arg0_path, bin_name>>
resVars ==
    <<is_elf32_bin, library_path, interpreter, unset_envs, is_pyinstaller_elf>>
execVars == <<interpreter_args, backend, image, execFailed>>
outVars == <<stdout, diag, exitCode>>
launchVars ==
    <<pc, invVars, fsVars, nameVars, resVars, execVars, outVars, exec_args,
      genBy>>
vars == <<cacheVars, dirnameVars, envVars, launchVars>>

\* ------------------------------------------------------------------------
\* String primitives of the Rust standard library, as the code uses them
\* ------------------------------------------------------------------------

\* All strings over alphabet A of length at most n.
StrUpTo(A, n) == UNION {[1..k -> A] : k \in 0..n}

\* s has pat at position i.
MatchAt(s, pat, i) ==
    /\ i + Len(pat) - 1 <= Len(s)
    /\ SubSeq(s, i, i + Len(pat) - 1) = pat

\* str::starts_with
StartsWith(s, pat) == MatchAt(s, pat, 1)

\* str::ends_with
EndsWith(s, pat) ==
    /\ Len(pat) <= Len(s)
    /\ SubSeq(s, Len(s) - Len(pat) + 1, Len(s)) = pat

\* str::contains (substring search)
Contains(s, pat) == \E i \in 1..(Len(s) + 1) : MatchAt(s, pat, i)

\* str::split on a one-character separator: always at least one piece.
RECURSIVE Split(_, _)
Split(s, sep) ==
    IF \A i \in 1..Len(s) : s[i] # sep
    THEN <<s>>
    ELSE LET i == CHOOSE k \in 1..Len(s) :
                      s[k] = sep /\ \A j \in 1..(k - 1) : s[j] # sep
         IN  <<SubSeq(s, 1, i - 1)>> \o Split(SubSeq(s, i + 1, Len(s)), sep)

\* [String]::join with separator string sep.
RECURSIVE Join(_, _)
Join(pieces, sep) ==
    IF Len(pieces) = 0 THEN <<>>
    ELSE IF Len(pieces) = 1 THEN pieces[1]
    ELSE pieces[1] \o sep \o Join(Tail(pieces), sep)

\* str::replace: every non-overlapping match of the non-empty pattern pat,
\* scanning left to right, becomes rep.
RECURSIVE Replace(_, _, _)
Replace(s, pat, rep) ==
    IF Len(s) = 0 THEN <<>>
    ELSE IF MatchAt(s, pat, 1)
         THEN rep \o Replace(SubSeq(s, Len(pat) + 1, Len(s)), pat, rep)
         ELSE <<Head(s)>> \o Replace(Tail(s), pat, rep)

IsSpace(c) == c \in {" ", "\n"}

\* str::trim: leading and trailing whitespace removed.
RECURSIVE TrimStart(_)
TrimStart(s) ==
    IF Len(s) > 0 /\ IsSpace(Head(s)) THEN TrimStart(Tail(s)) ELSE s

RECURSIVE TrimEnd(_)
TrimEnd(s) ==
    IF Len(s) > 0 /\ IsSpace(s[Len(s)])
    THEN TrimEnd(SubSeq(s, 1, Len(s) - 1)) ELSE s

Trim(s) == TrimEnd(TrimStart(s))

\* ------------------------------------------------------------------------
\* Path utilities
\* ------------------------------------------------------------------------

\* basename: the piece after the last '/'.
basename(path) ==
    LET pieces == Split(path, "/") IN pieces[Len(pieces)]

\* A dirname without the special case for a root-level absolute path.
dirname_no_root_case(path) ==
    LET pieces == Split(path, "/")
        grown  == IF Len(pieces) = 1 \/ path = <<>> THEN pieces
                  ELSE IF path[1] \notin {"/", ".", "~"}
                       THEN <<(<<".">>)>> \o pieces
                  ELSE pieces
    IN  Join(SubSeq(grown, 1, Len(grown) - 1), <<"/">>)

\* dirname: split on '/', maybe insert a leading piece, drop the last piece,
\* join with '/'.  The single-piece branch inserts nothing (its return of "."
\* is commented out in the source), so the pop leaves no piece at all.
dirname(path) ==
    LET pieces == Split(path, "/")
        grown  == IF Len(pieces) = 1 \/ path = <<>> THEN pieces
                  ELSE IF path[1] \notin {"/", ".", "~"}
                       THEN <<(<<".">>)>> \o pieces
                  ELSE IF Len(pieces) = 2 /\ path[1] = "/"
                       THEN <<(<<>>)>> \o pieces
                  ELSE pieces
    IN  Join(SubSeq(grown, 1, Len(grown) - 1), <<"/">>)

\* ------------------------------------------------------------------------
\* The process environment: a function from the set variables to strings
\* ------------------------------------------------------------------------

\* env::set_var
SetVar(e, key, val) ==
    [k \in DOMAIN e \cup {key} |-> IF k = key THEN val ELSE e[k]]

\* env::remove_var
RemoveVar(e, key) == [k \in DOMAIN e \ {key} |-> e[k]]

\* get_env_var: an unset variable reads as the empty string.
get_env_var(e, key) == IF key \in DOMAIN e THEN e[key] ELSE <<>>

\* An add_to_env that prepends without looking for the value.
add_to_env_always(e, key, val) ==
    LET old_val == get_env_var(e, key)
    IN  IF old_val = <<>> THEN SetVar(e, key, val)
        ELSE SetVar(e, key, val \o <<":">> \o old_val)

\* add_to_env: set when unset or empty, else prepend unless val is a
\* substring of the old value.
add_to_env(e, key, val) ==
    LET old_val == get_env_var(e, key)
    IN  IF old_val = <<>> THEN SetVar(e, key, val)
        ELSE IF ~Contains(old_val, val)
             THEN SetVar(e, key, val \o <<":">> \o old_val)
        ELSE e

\* ------------------------------------------------------------------------
\* The library path cache: gen_library_path and its resolution at launch
\* ------------------------------------------------------------------------

\* The marker that stands for the library root in lib.path.
Marker == <<"+">>

\* Path::parent of a path with at least two components.
PathParent(path) ==
    LET pieces == Split(path, "/")
    IN  Join(SubSeq(pieces, 1, Len(pieces) - 1), <<"/">>)

\* Path::join(base, name) for a relative name.
PathUnder(base, name) == base \o <<"/">> \o name

\* The walk's filter: the entry's file name ends in ".so" or contains ".so.".
\* The kind of the entry is not looked at.
IsSoName(name) ==
    \/ EndsWith(name, <<".", "s", "o">>)
    \/ Contains(name, <<".", "s", "o", ".">>)

\* The fold over the walked entries: the parent of every entry with a
\* shared-object name is pushed unless it is the root, is no directory, or is
\* already in the list.
RECURSIVE NewPaths(_, _, _, _)
NewPaths(walk, lib_root, dirs, new_paths) ==
    IF Len(walk) = 0 THEN new_paths
    ELSE LET entry  == Head(walk)
             parent == PathParent(entry)
             keep   == /\ IsSoName(basename(entry))
                       /\ parent # lib_root
                       /\ parent \in dirs
                       /\ \A i \in 1..Len(new_paths) : new_paths[i] # parent
         IN  NewPaths(Tail(walk), lib_root, dirs,
                      IF keep THEN Append(new_paths, parent) ELSE new_paths)

\* The text gen_library_path writes: "+:" and the ':'-joined list, then every
\* ':' replaced by a newline, then every occurrence of the root by the marker.
LibPathText(lib_root, new_paths) ==
    Replace(Replace(<<"+", ":">> \o Join(new_paths, <<":">>),
                    <<":">>, <<"\n">>),
            lib_root, Marker)

\* gen_library_path: the text written to lib.path for a walk of the tree.
gen_library_path(lib_root, walk, dirs) ==
    LibPathText(lib_root, NewPaths(walk, lib_root, dirs, <<>>))

\* The launch-time resolution of the cache text: trim, newlines to ':',
\* every marker to the current root.
ResolveLibPath(lib_path_data, lib_root) ==
    Replace(Replace(Trim(lib_path_data), <<"\n">>, <<":">>),
            Marker, lib_root)

\* The ':'-separated entries of a search path.
PathEntries(search) == Split(search, ":")

\* How many entries of a search path equal p.
CountEntry(search, p) ==
    Cardinality({i \in 1..Len(PathEntries(search)) : PathEntries(search)[i] = p})

\* ------------------------------------------------------------------------
\* SpecCache: trees beneath a library root, generation, relocation, resolution
\* ------------------------------------------------------------------------

\* How many directories a tree has beneath its root, at most.
MaxDirs == 2
\* How many shared-object files one directory holds, at most.
MaxSo == 2

LibRoots == {<<"/", "r">>, <<"/", "s">>}
DirNames == {<<"a">>, <<"c", "+">>}

\* The directories a tree can have, relative to its root; <<>> is the root.
RelUniverse ==
    {<<>>} \cup DirNames \cup {n \o <<"/">> \o m : n \in DirNames, m \in DirNames}

PrefixClosed(D) ==
    \A d \in D : d # <<>> /\ Len(Split(d, "/")) > 1 => PathParent(d) \in D

\* The k-th shared-object file name: x.so, y.so.1, xx.so, yy.so.1, ...
SoFile(k) ==
    IF k % 2 = 1
    THEN [i \in 1..((k + 1) \div 2) |-> "x"] \o <<".", "s", "o">>
    ELSE [i \in 1..(k \div 2) |-> "y"] \o <<".", "s", "o", ".", "1">>

OtherFile == <<"z">>

\* A directory's content: so shared-object files, and maybe another file.
Contents == [so : 0..MaxSo, other : BOOLEAN]

Layouts ==
    UNION {[D -> Contents] :
             D \in {E \in SUBSET RelUniverse :
                      /\ <<>> \in E
                      /\ Cardinality(E) <= MaxDirs + 1
                      /\ PrefixClosed(E)}}

\* The absolute path of a relative directory of the tree at root.
AbsOf(root, rel) == IF rel = <<>> THEN root ELSE PathUnder(root, rel)

FilesOf(c) ==
    {SoFile(k) : k \in 1..c.so} \cup (IF c.other THEN {OtherFile} ELSE {})

\* Every entry WalkDir yields for the tree at root: the directories and the
\* files in them.
WalkEntries(root, lay) ==
    {AbsOf(root, d) : d \in DOMAIN lay}
    \cup UNION {{PathUnder(AbsOf(root, d), f) : f \in FilesOf(lay[d])} :
                  d \in DOMAIN lay}

RECURSIVE SetToSeq(_)
SetToSeq(S) ==
    IF S = {} THEN <<>>
    ELSE LET x == CHOOSE y \in S : TRUE IN <<x>> \o SetToSeq(S \ {x})

Reverse(s) == [i \in 1..Len(s) |-> s[Len(s) + 1 - i]]

\* The walk visits the entries in the order the file system lists them: one
\* of two orders here.
Walks(root, lay) ==
    {SetToSeq(WalkEntries(root, lay)), Reverse(SetToSeq(WalkEntries(root, lay)))}

\* The directories of the tree, other than the root, that directly hold a
\* shared-object file.
SoDirs(lay) == {d \in DOMAIN lay : d # <<>> /\ lay[d].so > 0}

NoFile == [exists |-> FALSE, data |-> <<>>]

InitCache ==
    /\ genRoot \in LibRoots
    /\ curRoot = genRoot
    /\ layout \in Layouts
    /\ libPathFile = NoFile
    /\ searchPath = <<>>
    /\ cphase = "fresh"

InitCacheIdle ==
    /\ genRoot = <<>>
    /\ curRoot = <<>>
    /\ layout = <<>>
    /\ libPathFile = NoFile
    /\ searchPath = <<>>
    /\ cphase = "idle"

\* gen_library_path(root, root/lib.path)
CacheGen ==
    /\ cphase = "fresh"
    /\ \E walk \in Walks(genRoot, layout) :
         libPathFile' =
           [exists |-> TRUE,
            data |-> gen_library_path(genRoot, walk,
                                      {AbsOf(genRoot, d) : d \in DOMAIN layout})]
    /\ cphase' = "generated"
    /\ UNCHANGED <<genRoot, layout, curRoot, searchPath>>
    /\ UNCHANGED <<dirnameVars, envVars, launchVars>>

\* The bundle is copied to another absolute path, lib.path untouched.
CacheRelocate ==
    /\ cphase = "generated"
    /\ curRoot = genRoot
    /\ \E r \in LibRoots \ {genRoot} : curRoot' = r
    /\ UNCHANGED <<genRoot, layout, libPathFile, searchPath, cphase>>
    /\ UNCHANGED <<dirnameVars, envVars, launchVars>>

\* The launch reads lib.path and resolves it against the current root.
CacheResolve ==
    /\ cphase = "generated"
    /\ libPathFile.exists
    /\ searchPath' = ResolveLibPath(libPathFile.data, curRoot)
    /\ cphase' = "resolved"
    /\ UNCHANGED <<genRoot, layout, curRoot, libPathFile>>
    /\ UNCHANGED <<dirnameVars, envVars, launchVars>>

NextCache == CacheGen \/ CacheRelocate \/ CacheResolve

\* ------------------------------------------------------------------------
\* SpecDirname: dirname applied to every short path text
\* ------------------------------------------------------------------------

\* The longest path text dirname is applied to.
MaxPathLen == 5

PathAlphabet == {"/", ".", "~", "a", "b"}

InitDirname ==
    /\ dPath \in StrUpTo(PathAlphabet, MaxPathLen)
    /\ dOut = <<>>
    /\ dDone = FALSE

InitDirnameIdle ==
    /\ dPath = <<>>
    /\ dOut = <<>>
    /\ dDone = FALSE

ApplyDirname ==
    /\ ~dDone
    /\ dOut' = dirname(dPath)
    /\ dDone' = TRUE
    /\ UNCHANGED dPath
    /\ UNCHANGED <<cacheVars, envVars, launchVars>>

\* ------------------------------------------------------------------------
\* SpecEnv: add_to_env applied to a list-valued variable, once and again
\* ------------------------------------------------------------------------

\* The longest initial value of the list-valued variable.
MaxValLen == 3
\* The longest value add_to_env is given.
MaxNewLen == 2

ListKey == "PERLLIB"
OtherKey == "GCONV_PATH"

\* The environments add_to_env starts from: the list variable unset or any
\* short text, another variable unset or set.
EnvInputs ==
    {e \in UNION {[D -> StrUpTo({"a", "b", ":"}, MaxValLen)] :
                    D \in SUBSET {ListKey, OtherKey}} :
       OtherKey \in DOMAIN e => e[OtherKey] = <<"b">>}

InitEnv ==
    /\ env \in EnvInputs
    /\ envOld = env
    /\ addKey = ListKey
    /\ addVal = <<>>
    /\ addCount = 0

InitEnvIdle ==
    /\ env = <<>>
    /\ envOld = <<>>
    /\ addKey = ListKey
    /\ addVal = <<>>
    /\ addCount = 0

\* add_to_env(key, val) for a drawn value.
ApplyAddToEnv ==
    /\ addCount = 0
    /\ \E v \in StrUpTo({"a", "b"}, MaxNewLen) :
         /\ addVal' = v
         /\ env' = add_to_env(env, ListKey, v)
    /\ envOld' = env
    /\ addCount' = 1
    /\ UNCHANGED addKey
    /\ UNCHANGED <<cacheVars, dirnameVars, launchVars>>

\* The same add_to_env(key, val) once more.
RepeatAddToEnv ==
    /\ addCount = 1
    /\ env' = add_to_env(env, addKey, addVal)
    /\ addCount' = 2
    /\ UNCHANGED <<envOld, addKey, addVal>>
    /\ UNCHANGED <<cacheVars, dirnameVars, launchVars>>

NextEnv == ApplyAddToEnv \/ RepeatAddToEnv

\* ------------------------------------------------------------------------
\* One launch: the inputs
\* ------------------------------------------------------------------------

\* How many arguments follow argv[0], at most.
MaxArgs == 2

\* env!("CARGO_PKG_NAME")
SHARUN_NAME == <<"sharun">>

\* The bundle root of the launches modelled, and the caller's directory.
Bundle == <<"/", "b">>
Cwd == Bundle

bin_dir(sd) == sd \o <<"/", "bin">>
shared_bin(sd) == sd \o <<"/", "shared", "/", "bin">>
shared_lib(sd) == sd \o <<"/", "shared", "/", "lib">>
shared_lib32(sd) == sd \o <<"/", "shared", "/", "lib32">>

App == <<"app">>
RootLauncher == PathUnder(Bundle, SHARUN_NAME)

\* How the launcher is invoked: the executable run, argv[0] as the caller
\* gave it, and the symbolic links to the launcher that exist.
Invocations ==
    { \* by its own path
      [exe |-> RootLauncher, arg0 |-> RootLauncher, links |-> {}],
      \* by its bare name, found on PATH
      [exe |-> RootLauncher, arg0 |-> SHARUN_NAME, links |-> {}],
      \* by a relative path
      [exe |-> RootLauncher, arg0 |-> <<".", "/">> \o SHARUN_NAME, links |-> {}],
      \* through a symbolic link named after the target
      [exe |-> RootLauncher, arg0 |-> PathUnder(bin_dir(Bundle), App),
       links |-> {PathUnder(bin_dir(Bundle), App)}],
      \* as a hard link named after the target
      [exe |-> PathUnder(bin_dir(Bundle), App),
       arg0 |-> PathUnder(bin_dir(Bundle), App), links |-> {}],
      \* through a symbolic link named AppRun
      [exe |-> RootLauncher, arg0 |-> PathUnder(Bundle, <<"AppRun">>),
       links |-> {PathUnder(Bundle, <<"AppRun">>)}],
      \* under an argv[0] that names nothing
      [exe |-> RootLauncher, arg0 |-> <<"ghost">>, links |-> {}] }

\* The words a caller passes.
Words == {<<"-v">>, <<"--help">>, <<"-g">>, <<"l">>, App}

\* The argument lists: any word first, then an option or a plain word.
ArgLists ==
    {a \in StrUpTo(Words \cup {<<"x">>}, MaxArgs) :
       /\ Len(a) > 0 => a[1] \in Words
       /\ \A i \in 2..Len(a) : a[i] \in {<<"-v">>, <<"x">>}}

\* The interpreter names of the x86_64 build, in the order tried.
Candidates ==
    << <<"ld-linux-x86-64.so.2">>, <<"ld-musl-x86_64.so.1">>,
       <<"ld-linux.so.2">> >>

\* The interpreter files a bundle may hold.
InterpreterFiles ==
    {PathUnder(shared_lib(Bundle), Candidates[1]),
     PathUnder(shared_lib(Bundle), Candidates[2]),
     PathUnder(shared_lib32(Bundle), Candidates[3])}

\* The values of SHARUN_LDNAME: empty, a file name, an absolute path.
LdNames ==
    {<<>>, Candidates[2], PathUnder(shared_lib(Bundle), Candidates[1])}

\* The environments a launch starts in.
LaunchEnvs ==
    {e \in UNION {[D \cup {"PATH"} -> LdNames \cup {Bundle, <<"/", "w">>}] :
                    D \in SUBSET {"SHARUN_LDNAME", "SHARUN_WORKING_DIR"}} :
       /\ e["PATH"] = Bundle
       /\ "SHARUN_LDNAME" \in DOMAIN e => e["SHARUN_LDNAME"] \in LdNames
       /\ "SHARUN_WORKING_DIR" \in DOMAIN e =>
            e["SHARUN_WORKING_DIR"] = <<"/", "w">>}

\* bin/<name>: whether it is an executable file, and whose inode it has.
NoStub == [exe |-> FALSE, ino |-> "none"]
Stubs ==
    {NoStub, [exe |-> TRUE, ino |-> "script"], [exe |-> FALSE, ino |-> "script"],
     [exe |-> TRUE, ino |-> "launcher"]}

\* shared/bin/<name>: its first bytes and, for an ELF file, its section names.
NoTarget == [exists |-> FALSE, head |-> <<>>, sections |-> {}]
ElfMagic == <<127, 69, 76, 70>>
Targets ==
    {NoTarget,
     [exists |-> TRUE, head |-> <<35, 33>>, sections |-> {}],
     [exists |-> TRUE, head |-> <<35, 33, 47, 98, 105>>, sections |-> {}],
     [exists |-> TRUE, head |-> ElfMagic \o <<1>>, sections |-> {".text"}],
     [exists |-> TRUE, head |-> ElfMagic \o <<2>>, sections |-> {".text"}],
     [exists |-> TRUE, head |-> ElfMagic \o <<2>>,
      sections |-> {".text", "pydata"}]}

\* The tree beneath each library root of the bundle.
LaunchLayout ==
    (<<>> :> [so |-> 1, other |-> FALSE])
    @@ (<<"gconv">> :> [so |-> 1, other |-> FALSE])

\* lib.path of a library root: absent, or as generated there.
CacheFiles(r) ==
    {NoFile} \cup
    {[exists |-> TRUE,
      data |-> gen_library_path(r, w, {AbsOf(r, d) : d \in DOMAIN LaunchLayout})] :
       w \in Walks(r, LaunchLayout)}

\* The library roots that exist, each with its lib.path.
CacheStates ==
    UNION {{c \in [D -> UNION {CacheFiles(r) : r \in D}] :
              \A r \in D : c[r] \in CacheFiles(r)} :
             D \in SUBSET {shared_lib(Bundle), shared_lib32(Bundle)}}

\* .preload
NoPreload == [exists |-> FALSE, readable |-> FALSE, data |-> <<>>]
Preloads ==
    {NoPreload,
     [exists |-> TRUE, readable |-> FALSE, data |-> <<>>],
     [exists |-> TRUE, readable |-> TRUE, data |-> <<>>],
     [exists |-> TRUE, readable |-> TRUE,
      data |-> <<"p.so", "\n", " ", "q.so", "\n">>]}

\* ------------------------------------------------------------------------
\* One launch: the helpers that read the file system
\* ------------------------------------------------------------------------

Ok(v) == [ok |-> TRUE, val |-> v]
Err == [ok |-> FALSE, val |-> <<>>]

\* Path::join: an absolute argument replaces the base.
PathJoin(base, p) == IF StartsWith(p, <<"/">>) THEN p ELSE PathUnder(base, p)

\* Path::canonicalize of the directories of the model.
canonicalize(p) ==
    IF p \in {Bundle, bin_dir(Bundle)} THEN Ok(p)
    ELSE IF p = <<".">> THEN Ok(Cwd)
    ELSE Err

\* which(name): the first directory of PATH that holds the name.
which(name, e, present) ==
    LET dirs == Split(get_env_var(e, "PATH"), ":")
        hits == {i \in 1..Len(dirs) : PathUnder(dirs[i], name) \in present}
    IN  IF hits = {} THEN Err
        ELSE Ok(PathUnder(dirs[CHOOSE i \in hits : \A j \in hits : i <= j], name))

\* is_elf32 taken to fail on a file that lacks the ELF signature.
is_elf32_strict(t) ==
    IF ~t.exists \/ Len(t.head) < 5 THEN Err
    ELSE IF SubSeq(t.head, 1, 4) # ElfMagic THEN Err
    ELSE Ok(t.head[5] = 1)

\* is_elf32: open and read five bytes (an error if either fails); a file
\* without the ELF signature is Ok(false); else whether byte 4 is 1.
is_elf32(t) ==
    IF ~t.exists \/ Len(t.head) < 5 THEN Err
    ELSE IF SubSeq(t.head, 1, 4) # ElfMagic THEN Ok(FALSE)
    ELSE Ok(t.head[5] = 1)

\* is_elf_section(path, name).unwrap_or(false)
is_elf_section(t, section_name) ==
    /\ t.exists
    /\ Len(t.head) >= 5
    /\ SubSeq(t.head, 1, 4) = ElfMagic
    /\ section_name \in t.sections

\* The candidate list of get_interpreter: the override alone when the
\* variable is set (nothing when it is set and empty), else the build's list.
Interpreters(e) ==
    IF "SHARUN_LDNAME" \in DOMAIN e
    THEN IF e["SHARUN_LDNAME"] # <<>> THEN <<e["SHARUN_LDNAME"]>> ELSE <<>>
    ELSE Candidates

\* get_interpreter: the first candidate whose path joined to the library
\* root exists.
get_interpreter(lib, e, present) ==
    LET list == Interpreters(e)
        hits == {i \in 1..Len(list) : PathJoin(lib, list[i]) \in present}
    IN  IF hits = {} THEN Err
        ELSE Ok(PathJoin(lib, list[CHOOSE i \in hits : \A j \in hits : i <= j]))

\* .env, as dotenv and read_dotenv parse it: the variables it sets and the
\* names after "unset".
NoDotenv == [exists |-> FALSE, readable |-> FALSE, sets |-> <<>>, unsets |-> <<>>]
Dotenvs ==
    {NoDotenv,
     [exists |-> TRUE, readable |-> TRUE,
      sets |-> ("SHARUN_LDNAME" :> Candidates[2]),
      unsets |-> <<"SHARUN_DIR">>]}

\* ------------------------------------------------------------------------
\* One launch: main, step by step
\* ------------------------------------------------------------------------

\* The files a launcher name resolves to.
Launchers == {RootLauncher, sharun} \cup links

\* exit(code) after eprintln!(msg)
Die(code, msg) ==
    /\ pc' = "exited"
    /\ exitCode' = code
    /\ diag' = Append(diag, msg)
    /\ UNCHANGED stdout

\* main returns or calls exit(code) without a diagnostic.
Leave(code) ==
    /\ pc' = "exited"
    /\ exitCode' = code

InitLaunch ==
    /\ pc = "start"
    /\ \E inv \in Invocations, rest \in ArgLists :
         /\ sharun = inv.exe
         /\ argv = <<inv.arg0>> \o rest
         /\ links = inv.links
    /\ env \in LaunchEnvs
    /\ stub = NoStub
    /\ target = NoTarget
    /\ files = {}
    /\ caches = <<>>
    /\ cachesAtStart = <<>>
    /\ writable = FALSE
    /\ preload = NoPreload
    /\ dotenv = NoDotenv
    /\ exec_args = <<>>
    /\ sharun_dir = <<>>
    /\ arg0_path = <<>>
    /\ bin_name = <<>>
    /\ is_elf32_bin = FALSE
    /\ library_path = <<>>
    /\ interpreter = <<>>
    /\ unset_envs = <<>>
    /\ is_pyinstaller_elf = FALSE
    /\ interpreter_args = <<>>
    /\ backend = "none"
    /\ image = <<>>
    /\ execFailed = FALSE
    /\ genBy = "none"
    /\ stdout = <<>>
    /\ diag = <<>>
    /\ exitCode = -1

InitLaunchIdle ==
    /\ pc = "idle"
    /\ sharun = <<>>
    /\ argv = <<>>
    /\ links = {}
    /\ stub = NoStub
    /\ target = NoTarget
    /\ files = {}
    /\ caches = <<>>
    /\ cachesAtStart = <<>>
    /\ writable = FALSE
    /\ preload = NoPreload
    /\ dotenv = NoDotenv
    /\ exec_args = <<>>
    /\ sharun_dir = <<>>
    /\ arg0_path = <<>>
    /\ bin_name = <<>>
    /\ is_elf32_bin = FALSE
    /\ library_path = <<>>
    /\ interpreter = <<>>
    /\ unset_envs = <<>>
    /\ is_pyinstaller_elf = FALSE
    /\ interpreter_args = <<>>
    /\ backend = "none"
    /\ image = <<>>
    /\ execFailed = FALSE
    /\ genBy = "none"
    /\ stdout = <<>>
    /\ diag = <<>>
    /\ exitCode = -1

\* The bin_name of lines 247-251: argv[0]'s name when the invocation path is
\* a symbolic link to the launcher, else the executable's own name.
ResolveBinName(path, arg0_name) ==
    IF path \in links THEN arg0_name ELSE basename(sharun)

\* Lines 216-251: the bundle root, the invocation path, the launcher name.
Start ==
    /\ pc = "start"
    /\ LET dir0      == PathParent(sharun)
           promoted  == /\ basename(dir0) = <<"bin">>
                        /\ PathUnder(PathParent(dir0), SHARUN_NAME) \in Launchers
           sd        == IF promoted THEN PathParent(dir0) ELSE dir0
           arg0      == Head(argv)
           arg0_name == basename(arg0)
           canon     == canonicalize(dirname(arg0))
           found     == which(arg0_name, env, Launchers)
           arg0_dir  == IF canon.ok THEN canon
                        ELSE IF found.ok THEN Ok(PathParent(found.val))
                        ELSE Err
       IN  /\ sharun_dir' = sd
           /\ env' = SetVar(env, "SHARUN_DIR", sd)
           /\ exec_args' = Tail(argv)
           /\ IF arg0_dir.ok
              THEN /\ arg0_path' = PathUnder(arg0_dir.val, arg0_name)
                   /\ bin_name' =
                        ResolveBinName(PathUnder(arg0_dir.val, arg0_name), arg0_name)
                   /\ pc' = "dispatch"
                   /\ UNCHANGED outVars
              ELSE /\ arg0_path' = <<>>
                   /\ bin_name' = <<>>
                   /\ Die(1, "Failed to find ARG0 dir!")
    /\ UNCHANGED <<invVars, fsVars, resVars, execVars, genBy>>
    /\ UNCHANGED <<cacheVars, dirnameVars, envAux>>

\* An option match taken under every name but AppRun.
SelfModeAnyName == bin_name # <<"AppRun">>

\* Whether main takes the option match of lines 253-255.
SelfMode == bin_name = SHARUN_NAME

\* Lines 256-259: -v, --version
Version ==
    /\ pc = "dispatch"
    /\ SelfMode
    /\ exec_args # <<>>
    /\ exec_args[1] \in {<<"-v">>, <<"--version">>}
    /\ stdout' = Append(stdout, "version")
    /\ Leave(0)
    /\ UNCHANGED <<invVars, fsVars, nameVars, resVars, execVars, diag,
                   exec_args, genBy, env>>
    /\ UNCHANGED <<cacheVars, dirnameVars, envAux>>

\* Lines 260-263: -h, --help
Help ==
    /\ pc = "dispatch"
    /\ SelfMode
    /\ exec_args # <<>>
    /\ exec_args[1] \in {<<"-h">>, <<"--help">>}
    /\ stdout' = Append(stdout, "usage")
    /\ Leave(0)
    /\ UNCHANGED <<invVars, fsVars, nameVars, resVars, execVars, diag,
                   exec_args, genBy, env>>
    /\ UNCHANGED <<cacheVars, dirnameVars, envAux>>

\* The text written to root's lib.path for one of the walk orders.
Generated(root, rev) ==
    LET w == SetToSeq(WalkEntries(root, LaunchLayout))
    IN  [exists |-> TRUE,
         data |-> gen_library_path(root, IF rev THEN Reverse(w) ELSE w,
                                   {AbsOf(root, d) : d \in DOMAIN LaunchLayout})]

\* Lines 264-272: -g, --gen-lib-path: gen_library_path for shared/lib, then
\* shared/lib32, each if it exists; a failed write exits 1.
GenLibPathOption ==
    /\ pc = "dispatch"
    /\ SelfMode
    /\ exec_args # <<>>
    /\ exec_args[1] \in {<<"-g">>, <<"--gen-lib-path">>}
    /\ \E c \in CacheStates, w \in BOOLEAN, rev \in BOOLEAN :
         /\ writable' = w
         /\ cachesAtStart' = c
         /\ IF DOMAIN c = {}
            THEN /\ caches' = c
                 /\ UNCHANGED <<diag, genBy>>
                 /\ Leave(0)
            ELSE IF w
            THEN /\ caches' = [r \in DOMAIN c |-> Generated(r, rev)]
                 /\ diag' = diag \o [i \in 1..Cardinality(DOMAIN c) |->
                                       "Write lib.path"]
                 /\ genBy' = "option"
                 /\ Leave(0)
            ELSE /\ caches' = c
                 /\ genBy' = "option"
                 /\ diag' = Append(diag, "Failed to write lib.path")
                 /\ Leave(1)
    /\ UNCHANGED <<invVars, stub, target, files, preload, dotenv, nameVars,
                   resVars, execVars, stdout, exec_args, env>>
    /\ UNCHANGED <<cacheVars, dirnameVars, envAux>>

\* Lines 273-301: l, lib4bin: the packaged script run by bash, whose exit
\* status is forwarded.
Lib4bin ==
    /\ pc = "dispatch"
    /\ SelfMode
    /\ exec_args # <<>>
    /\ exec_args[1] \in {<<"l">>, <<"lib4bin">>}
    /\ exec_args' = Tail(exec_args)
    /\ env' = add_to_env(env, "PATH", bin_dir(sharun_dir))
    /\ \E spawned \in BOOLEAN, code \in {0, 1} :
         IF spawned
         THEN Leave(code) /\ UNCHANGED <<diag, stdout>>
         ELSE Die(1, "Failed to run bash")
    /\ UNCHANGED <<invVars, fsVars, nameVars, resVars, execVars, genBy>>
    /\ UNCHANGED <<cacheVars, dirnameVars, envAux>>

\* A default arm that runs every executable bin/<name>.
RunsStubAlways(st, tg) == st.exe

\* Whether the default arm runs bin/<name> itself (lines 305-307).
RunsStub(st, tg) ==
    st.exe /\ (st.ino = "launcher" \/ ~tg.exists)

\* Lines 302-317: any other first argument names the binary.  bin/<name> is
\* run if it is executable and either shares the launcher's inode or
\* shared/bin/<name> does not exist; else main goes on with shared/bin/<name>.
NamedDispatch ==
    /\ pc = "dispatch"
    /\ SelfMode
    /\ exec_args # <<>>
    /\ exec_args[1] \notin {<<"-v">>, <<"--version">>, <<"-h">>, <<"--help">>,
                            <<"-g">>, <<"--gen-lib-path">>, <<"l">>, <<"lib4bin">>}
    /\ bin_name' = exec_args[1]
    /\ exec_args' = Tail(exec_args)
    /\ \E st \in Stubs, tg \in Targets, ok \in BOOLEAN :
         /\ stub' = st
         /\ target' = tg
         /\ IF RunsStub(st, tg)
            THEN /\ env' = add_to_env(env, "PATH", bin_dir(sharun_dir))
                 /\ backend' = "command"
                 /\ image' = PathUnder(bin_dir(sharun_dir), exec_args[1])
                 /\ interpreter_args' =
                      <<PathUnder(bin_dir(sharun_dir), exec_args[1])>>
                      \o Tail(exec_args)
                 /\ execFailed' = ~ok
                 /\ IF ok
                    THEN pc' = "replaced" /\ UNCHANGED outVars
                    ELSE Die(1, "Failed to run")
            ELSE /\ ok
                 /\ pc' = "probe"
                 /\ UNCHANGED <<env, execVars, outVars>>
    /\ UNCHANGED <<invVars, files, caches, cachesAtStart, writable, preload, dotenv,
                   sharun_dir, arg0_path, resVars, genBy>>
    /\ UNCHANGED <<cacheVars, dirnameVars, envAux>>

\* Lines 319-329: no argument: the executables of bin/ are listed, exit 1.
NoArgs ==
    /\ pc = "dispatch"
    /\ SelfMode
    /\ exec_args = <<>>
    /\ stdout' = Append(stdout, "executables")
    /\ diag' = Append(diag, "Specify the executable")
    /\ Leave(1)
    /\ UNCHANGED <<invVars, fsVars, nameVars, resVars, execVars, exec_args,
                   genBy, env>>
    /\ UNCHANGED <<cacheVars, dirnameVars, envAux>>

\* Lines 330-384: AppRun: the application name comes from .app or a .desktop
\* file, and bin/<application> is run.
AppRunMode ==
    /\ pc = "dispatch"
    /\ bin_name = <<"AppRun">>
    /\ \E named \in BOOLEAN, ok \in BOOLEAN :
         IF ~named
         THEN /\ ok
              /\ Die(1, "Failed to read .app file")
              /\ UNCHANGED <<env, execVars>>
         ELSE /\ env' =
                   LET e1 == add_to_env(env, "PATH", bin_dir(sharun_dir))
                       e2 == IF get_env_var(e1, "ARGV0") = <<>>
                             THEN SetVar(e1, "ARGV0", Head(argv)) ELSE e1
                   IN  SetVar(e2, "APPDIR", sharun_dir)
              /\ backend' = "command"
              /\ image' = PathUnder(bin_dir(sharun_dir), App)
              /\ interpreter_args' =
                   <<PathUnder(bin_dir(sharun_dir), App)>> \o exec_args
              /\ execFailed' = ~ok
              /\ IF ok
                 THEN pc' = "replaced" /\ UNCHANGED outVars
                 ELSE Die(1, "Failed to run App")
    /\ UNCHANGED <<invVars, fsVars, nameVars, resVars, exec_args, genBy>>
    /\ UNCHANGED <<cacheVars, dirnameVars, envAux>>

\* Any other launcher name: no branch of lines 253-384 is taken, and the
\* target is shared/bin/<launcher name>.
NamedBinary ==
    /\ pc = "dispatch"
    /\ ~SelfMode
    /\ bin_name # <<"AppRun">>
    /\ \E tg \in Targets : target' = tg
    /\ pc' = "probe"
    /\ UNCHANGED <<invVars, stub, files, caches, cachesAtStart, writable, preload, dotenv,
                   nameVars, resVars, execVars, outVars, exec_args, genBy, env>>
    /\ UNCHANGED <<cacheVars, dirnameVars, envAux>>

\* The target binary: shared/bin/<bin_name> (line 385).
Bin == PathUnder(shared_bin(sharun_dir), bin_name)

\* The library root of lines 392-396.
RootFor(elf32) ==
    IF elf32 THEN shared_lib32(sharun_dir) ELSE shared_lib(sharun_dir)

\* Lines 385-396: the ELF class of the target picks the library root; a
\* failed probe is fatal.
ProbeElf ==
    /\ pc = "probe"
    /\ LET probed == is_elf32(target)
       IN  IF probed.ok
           THEN /\ is_elf32_bin' = probed.val
                /\ library_path' = RootFor(probed.val)
                /\ pc' = "dotenv"
                /\ UNCHANGED outVars
           ELSE /\ Die(1, "Failed to check ELF class")
                /\ UNCHANGED <<is_elf32_bin, library_path>>
    /\ UNCHANGED <<invVars, fsVars, nameVars, interpreter, unset_envs,
                   is_pyinstaller_elf, execVars, exec_args, genBy, env>>
    /\ UNCHANGED <<cacheVars, dirnameVars, envAux>>

\* dotenv::from_path: the variables of .env that are not set yet.
LoadDotenv(e, sets) ==
    [k \in DOMAIN e \cup DOMAIN sets |-> IF k \in DOMAIN e THEN e[k] ELSE sets[k]]

\* Line 398, read_dotenv: .env is loaded into the environment and its
\* "unset" names are kept; a .env that exists and cannot be read is fatal.
ReadDotenv ==
    /\ pc = "dotenv"
    /\ \E d \in Dotenvs :
         /\ dotenv' = d
         /\ IF ~d.exists
            THEN /\ pc' = "interp"
                 /\ UNCHANGED <<env, unset_envs, outVars>>
            ELSE IF d.readable
            THEN /\ env' = LoadDotenv(env, d.sets)
                 /\ unset_envs' = d.unsets
                 /\ pc' = "interp"
                 /\ UNCHANGED outVars
            ELSE /\ Die(1, "Failed to read .env file")
                 /\ UNCHANGED <<env, unset_envs>>
    /\ UNCHANGED <<invVars, stub, target, files, caches, cachesAtStart, writable, preload,
                   nameVars, is_elf32_bin, library_path, interpreter,
                   is_pyinstaller_elf, execVars, exec_args, genBy>>
    /\ UNCHANGED <<cacheVars, dirnameVars, envAux>>

\* Lines 400-403: the interpreter in the library root, or a fatal error.
GetInterpreter ==
    /\ pc = "interp"
    /\ \E present \in SUBSET InterpreterFiles :
         /\ files' = present
         /\ LET got == get_interpreter(library_path, env, present)
            IN  IF got.ok
                THEN /\ interpreter' = got.val
                     /\ pc' = "workdir"
                     /\ UNCHANGED outVars
                ELSE /\ Die(1, "Interpreter not found!")
                     /\ UNCHANGED interpreter
    /\ UNCHANGED <<invVars, stub, target, caches, cachesAtStart, writable, preload, dotenv,
                   nameVars, is_elf32_bin, library_path, unset_envs,
                   is_pyinstaller_elf, execVars, exec_args, genBy, env>>
    /\ UNCHANGED <<cacheVars, dirnameVars, envAux>>

\* Lines 405-412: SHARUN_WORKING_DIR, when not empty, becomes the working
\* directory and is removed; a failed change is fatal.
WorkingDir ==
    /\ pc = "workdir"
    /\ IF get_env_var(env, "SHARUN_WORKING_DIR") = <<>>
       THEN /\ pc' = "cache"
            /\ UNCHANGED <<env, outVars>>
       ELSE \E ok \in BOOLEAN :
              IF ok
              THEN /\ env' = RemoveVar(env, "SHARUN_WORKING_DIR")
                   /\ pc' = "cache"
                   /\ UNCHANGED outVars
              ELSE /\ Die(1, "Failed to change working directory")
                   /\ UNCHANGED env
    /\ UNCHANGED <<invVars, fsVars, nameVars, resVars, execVars, exec_args,
                   genBy>>
    /\ UNCHANGED <<cacheVars, dirnameVars, envAux>>

\* Lines 414-417: lib.path is generated when it does not exist and the
\* library root is writable.
LazyGen ==
    /\ pc = "cache"
    /\ \E c \in CacheStates, w \in BOOLEAN, rev \in BOOLEAN :
         /\ \A f \in files : PathParent(f) \in DOMAIN c
         /\ \A r \in DOMAIN c \ {library_path} :
              c[r] = NoFile /\ \E f \in files : PathParent(f) = r
         /\ writable' = w
         /\ cachesAtStart' = c
         /\ IF library_path \in DOMAIN c /\ ~c[library_path].exists /\ w
            THEN /\ caches' = [c EXCEPT ![library_path] =
                                 Generated(library_path, rev)]
                 /\ genBy' = "lazy"
                 /\ diag' = Append(diag, "Write lib.path")
            ELSE /\ ~rev
                 /\ caches' = c
                 /\ UNCHANGED <<genBy, diag>>
    /\ pc' = "synth"
    /\ UNCHANGED <<invVars, stub, target, files, preload, dotenv, nameVars,
                   resVars, execVars, stdout, exitCode, exec_args, env>>
    /\ UNCHANGED <<cacheVars, dirnameVars, envAux>>

\* The bundle's directories and files, beside the library trees, that the
\* synthesis looks for.
BundleDirs ==
    {PathUnder(Bundle, <<"share">>),
     PathUnder(PathUnder(Bundle, <<"share">>), <<"terminfo">>),
     PathUnder(PathUnder(Bundle, <<"share">>), <<"X11">>),
     PathUnder(Bundle, <<"etc">>),
     PathUnder(PathUnder(Bundle, <<"etc">>), <<"fonts">>)}
BundleFiles ==
    {PathUnder(PathUnder(PathUnder(Bundle, <<"etc">>), <<"fonts">>),
               <<"fonts.conf">>)}

\* Path::exists
Exists(p) == p \in BundleDirs \cup BundleFiles

\* The entries WalkDir meets beneath dir that have the file name and kind
\* asked for.  The bundle holds at most one of each.
WalkHits(dir, name, among) ==
    {q \in among : StartsWith(q, dir \o <<"/">>) /\ basename(q) = name}

\* env::set_var(key, hit) for the entry a walk finds, if any.
SetToHit(e, key, hits) ==
    IF hits = {} THEN e ELSE SetVar(e, key, CHOOSE q \in hits : TRUE)

\* Lines 423-425: the names of the cached directories, a set: of every line
\* of the trimmed text, the piece after the first '/', or "" without one.
CachedDirs(lib_path_data) ==
    LET lines == Split(Trim(lib_path_data), "\n")
        Nth1(line) == IF Len(Split(line, "/")) >= 2
                      THEN Split(line, "/")[2] ELSE <<>>
    IN  {Nth1(lines[i]) : i \in 1..Len(lines)}

\* Lines 428-431
RulePython(e, dir, dir_path, sd) ==
    IF StartsWith(dir, <<"python">>)
    THEN SetVar(add_to_env(e, "PYTHONHOME", sd),
                "PYTHONDONTWRITEBYTECODE", <<"1">>)
    ELSE e

\* Lines 432-434
RulePerl(e, dir, dir_path) ==
    IF StartsWith(dir, <<"perl">>) THEN add_to_env(e, "PERLLIB", dir_path) ELSE e

\* Lines 435-437
RuleGconv(e, dir, dir_path) ==
    IF dir = <<"gconv">> THEN add_to_env(e, "GCONV_PATH", dir_path) ELSE e

\* Lines 438-443
RuleGio(e, dir, dir_path) ==
    IF dir = <<"gio">> /\ Exists(PathUnder(dir_path, <<"modules">>))
    THEN SetVar(e, "GIO_MODULE_DIR", PathUnder(dir_path, <<"modules">>))
    ELSE e

\* Lines 444-446
RuleDri(e, dir, dir_path) ==
    IF dir = <<"dri">> THEN SetVar(e, "LIBGL_DRIVERS_PATH", dir_path) ELSE e

\* Lines 447-449
RuleSpa(e, dir, dir_path) ==
    IF StartsWith(dir, <<"spa-">>)
    THEN SetVar(e, "SPA_PLUGIN_DIR", dir_path) ELSE e

\* Lines 450-452
RulePipewire(e, dir, dir_path) ==
    IF StartsWith(dir, <<"pipewire-">>)
    THEN SetVar(e, "PIPEWIRE_MODULE_DIR", dir_path) ELSE e

\* Lines 453-464
RuleGtk(e, dir, dir_path, sd) ==
    IF StartsWith(dir, <<"gtk-">>)
    THEN SetToHit(SetVar(SetVar(add_to_env(e, "GTK_PATH", dir_path),
                                "GTK_EXE_PREFIX", sd),
                         "GTK_DATA_PREFIX", sd),
                  "GTK_IM_MODULE_FILE",
                  WalkHits(dir_path, <<"immodules.cache">>, BundleFiles))
    ELSE e

\* Lines 465-471
RuleQt(e, dir, dir_path, sd) ==
    IF /\ StartsWith(dir, <<"qt">>)
       /\ Exists(PathUnder(dir_path, <<"plugins">>))
       /\ ~Exists(PathUnder(bin_dir(sd), <<"qt.conf">>))
    THEN add_to_env(e, "QT_PLUGIN_PATH", PathUnder(dir_path, <<"plugins">>))
    ELSE e

\* Lines 472-474
RuleBabl(e, dir, dir_path) ==
    IF StartsWith(dir, <<"babl-">>) THEN SetVar(e, "BABL_PATH", dir_path) ELSE e

\* Lines 475-477
RuleGegl(e, dir, dir_path) ==
    IF StartsWith(dir, <<"gegl-">>) THEN SetVar(e, "GEGL_PATH", dir_path) ELSE e

\* Lines 478-483
RuleGimp(e, dir, dir_path) ==
    IF dir = <<"gimp">> /\ Exists(PathUnder(dir_path, <<"2.0">>))
    THEN SetVar(e, "GIMP2_PLUGINDIR", PathUnder(dir_path, <<"2.0">>))
    ELSE e

\* Lines 484-489
RuleLibdecor(e, dir, dir_path) ==
    IF dir = <<"libdecor">> /\ Exists(PathUnder(dir_path, <<"plugins-1">>))
    THEN SetVar(e, "LIBDECOR_PLUGIN_DIR", PathUnder(dir_path, <<"plugins-1">>))
    ELSE e

\* Lines 490-496
RuleTcl(e, dir, dir_path, lib) ==
    IF StartsWith(dir, <<"tcl">>) /\ Exists(PathUnder(dir_path, <<"msgs">>))
    THEN IF Exists(PathUnder(lib, Replace(dir, <<"tcl">>, <<"tk">>)))
         THEN add_to_env(add_to_env(e, "TCL_LIBRARY", dir_path), "TK_LIBRARY",
                         PathUnder(lib, Replace(dir, <<"tcl">>, <<"tk">>)))
         ELSE add_to_env(e, "TCL_LIBRARY", dir_path)
    ELSE e

\* Lines 497-505
RuleGstreamer(e, dir, dir_path) ==
    IF StartsWith(dir, <<"gstreamer-">>)
    THEN IF Exists(PathUnder(dir_path, <<"gst-plugin-scanner">>))
         THEN SetVar(add_to_env(add_to_env(add_to_env(e,
                         "GST_PLUGIN_PATH", dir_path),
                         "GST_PLUGIN_SYSTEM_PATH", dir_path),
                         "GST_PLUGIN_SYSTEM_PATH_1_0", dir_path),
                     "GST_PLUGIN_SCANNER",
                     PathUnder(dir_path, <<"gst-plugin-scanner">>))
         ELSE add_to_env(add_to_env(add_to_env(e,
                  "GST_PLUGIN_PATH", dir_path),
                  "GST_PLUGIN_SYSTEM_PATH", dir_path),
                  "GST_PLUGIN_SYSTEM_PATH_1_0", dir_path)
    ELSE e

\* Lines 506-524
RuleGdkPixbuf(e, dir, dir_path) ==
    IF StartsWith(dir, <<"gdk-pixbuf-">>)
    THEN SetToHit(SetToHit(e, "GDK_PIXBUF_MODULEDIR",
                           WalkHits(dir_path, <<"loaders">>, BundleDirs)),
                  "GDK_PIXBUF_MODULE_FILE",
                  WalkHits(dir_path, <<"loaders.cache">>, BundleFiles))
    ELSE e

\* Lines 427-524: the rules one directory name goes through, in the order of
\* the code.
DirRules(e, dir, lib, sd) ==
    LET dir_path == PathUnder(lib, dir)
    IN  RuleGdkPixbuf(
        RuleGstreamer(
        RuleTcl(
        RuleLibdecor(
        RuleGimp(
        RuleGegl(
        RuleBabl(
        RuleQt(
        RuleGtk(
        RulePipewire(
        RuleSpa(
        RuleDri(
        RuleGio(
        RuleGconv(
        RulePerl(
        RulePython(e, dir, dir_path, sd),
          dir, dir_path), dir, dir_path), dir, dir_path), dir, dir_path),
          dir, dir_path), dir, dir_path), dir, dir_path, sd),
          dir, dir_path, sd), dir, dir_path), dir, dir_path), dir, dir_path),
          dir, dir_path), dir, dir_path, lib), dir, dir_path), dir, dir_path)

\* The orders a HashSet of these names may be iterated in: any.
Orders(names) ==
    {o \in [1..Cardinality(names) -> names] :
       \A i, j \in 1..Cardinality(names) : o[i] = o[j] => i = j}

\* Lines 426-525: the loop over the names, in the order of the iteration.
RECURSIVE VisitDirs(_, _, _, _)
VisitDirs(e, order, lib, sd) ==
    IF Len(order) = 0 THEN e
    ELSE CHOOSE after \in {VisitDirs(visited, Tail(order), lib, sd) :
                             visited \in {DirRules(e, Head(order), lib, sd)}} :
           TRUE

\* Lines 541-585: the arm of one directory of share/.
ShareRule(e, name, sd) ==
    LET entry_path == PathUnder(PathUnder(sd, <<"share">>), name)
        Sub(x) == PathUnder(entry_path, x)
        Usr(x) == <<"/", "usr", "/", "share", "/">> \o name \o <<"/">> \o x
    IN  IF entry_path \notin BundleDirs THEN e
        ELSE IF name = <<"glvnd">> /\ Exists(Sub(<<"egl_vendor.d">>))
        THEN add_to_env(add_to_env(e, "__EGL_VENDOR_LIBRARY_DIRS",
                                   Usr(<<"egl_vendor.d">>)),
                        "__EGL_VENDOR_LIBRARY_DIRS", Sub(<<"egl_vendor.d">>))
        ELSE IF name = <<"vulkan">> /\ Exists(Sub(<<"icd.d">>))
        THEN add_to_env(add_to_env(e, "VK_DRIVER_FILES", Usr(<<"icd.d">>)),
                        "VK_DRIVER_FILES", Sub(<<"icd.d">>))
        ELSE IF name = <<"X11">> /\ Exists(Sub(<<"xkb">>))
        THEN SetVar(e, "XKB_CONFIG_ROOT", Sub(<<"xkb">>))
        ELSE IF name = <<"glib-2.0">> /\ Exists(Sub(<<"schemas">>))
        THEN add_to_env(add_to_env(e, "GSETTINGS_SCHEMA_DIR", Usr(<<"schemas">>)),
                        "GSETTINGS_SCHEMA_DIR", Sub(<<"schemas">>))
        ELSE IF name = <<"gimp">> /\ Exists(Sub(<<"2.0">>))
        THEN SetVar(e, "GIMP2_DATADIR", Sub(<<"2.0">>))
        ELSE IF name = <<"terminfo">>
        THEN SetVar(e, "TERMINFO", entry_path)
        ELSE IF name = <<"file">> /\ Exists(Sub(<<"misc", "/", "magic.mgc">>))
        THEN SetVar(e, "MAGIC", Sub(<<"misc", "/", "magic.mgc">>))
        ELSE e

\* The names the share/ pass has an arm for.  A directory holds a name once
\* and no two arms write the same variable, so the order read_dir lists them
\* in does not show.
ShareNames ==
    << <<"glvnd">>, <<"vulkan">>, <<"X11">>, <<"glib-2.0">>, <<"gimp">>,
       <<"terminfo">>, <<"file">> >>

RECURSIVE ShareEntries(_, _, _)
ShareEntries(e, names, sd) ==
    IF Len(names) = 0 THEN e
    ELSE CHOOSE after \in {ShareEntries(seen, Tail(names), sd) :
                             seen \in {ShareRule(e, Head(names), sd)}} :
           TRUE

\* Lines 531-589: the share/ pass.
SharePass(e, sd) ==
    LET share_dir == PathUnder(sd, <<"share">>)
    IN  IF share_dir \notin BundleDirs THEN e
        ELSE ShareEntries(
               add_to_env(add_to_env(add_to_env(e,
                   "XDG_DATA_DIRS", <<"/", "usr", "/", "local", "/", "share">>),
                   "XDG_DATA_DIRS", <<"/", "usr", "/", "share">>),
                   "XDG_DATA_DIRS", share_dir),
               ShareNames, sd)

\* Lines 591-616: the etc/ pass.
EtcPass(e, sd) ==
    LET etc_dir == PathUnder(sd, <<"etc">>)
        fonts == PathUnder(etc_dir, <<"fonts">>)
        gimp == PathUnder(etc_dir, <<"gimp">>)
        e1 == IF fonts \in BundleDirs /\ Exists(PathUnder(fonts, <<"fonts.conf">>))
              THEN SetVar(e, "FONTCONFIG_FILE", PathUnder(fonts, <<"fonts.conf">>))
              ELSE e
        e2 == IF gimp \in BundleDirs /\ Exists(PathUnder(gimp, <<"2.0">>))
              THEN SetVar(e1, "GIMP2_SYSCONFDIR", PathUnder(gimp, <<"2.0">>))
              ELSE e1
    IN  IF etc_dir \notin BundleDirs THEN e ELSE e2

\* Lines 419-616: the environment main hands on, for the order in which the
\* cached names were visited (no name is visited without a readable lib.path).
SynthesizedEnv(e, order, lib, sd) ==
    EtcPass(SharePass(VisitDirs(add_to_env(e, "PATH", bin_dir(sd)),
                                order, lib, sd),
                      sd),
            sd)

\* Lines 419-616: bin/ goes first on PATH; when lib.path can be read, the
\* names of its directories are visited in the order of the HashSet and the
\* library path becomes the resolution of the text; then the share/ and etc/
\* passes.
SynthEnv ==
    /\ pc = "synth"
    /\ IF library_path \in DOMAIN caches /\ caches[library_path].exists
       THEN /\ \E order \in Orders(CachedDirs(caches[library_path].data)) :
                 env' = SynthesizedEnv(env, order, library_path, sharun_dir)
            /\ library_path' =
                 ResolveLibPath(caches[library_path].data, library_path)
       ELSE /\ env' = SynthesizedEnv(env, <<>>, library_path, sharun_dir)
            /\ UNCHANGED library_path
    /\ envOld' = env
    /\ pc' = "args"
    /\ UNCHANGED <<invVars, fsVars, nameVars, is_elf32_bin, interpreter,
                   unset_envs, is_pyinstaller_elf, execVars, outVars,
                   exec_args, genBy>>
    /\ UNCHANGED <<cacheVars, dirnameVars, addKey, addVal, addCount>>

RECURSIVE RemoveAll(_, _)
RemoveAll(e, names) ==
    IF Len(names) = 0 THEN e
    ELSE RemoveAll(RemoveVar(e, Head(names)), Tail(names))

TrimEach(pieces) == [i \in 1..Len(pieces) |-> Trim(pieces[i])]

\* The value after --argv0 (lines 636-640): the target's own path for a
\* frozen target, else the invocation path.
Argv0For(frozen) == IF frozen THEN Bin ELSE arg0_path

\* The --preload pair of lines 648-657: the trimmed lines of the trimmed
\* text, joined by spaces.  The split always yields a piece, so the pair is
\* pushed for every .preload that can be read.
PreloadArgs(data) ==
    LET lines == TrimEach(Split(Trim(data), "\n"))
    IN  IF Len(lines) # 0
        THEN << <<"--preload">>, Join(lines, <<" ">>) >>
        ELSE <<>>

\* Lines 618-663: the unset names are removed, and the interpreter's
\* argument vector is built.
BuildArgs ==
    /\ pc = "args"
    /\ env' = RemoveAll(env, unset_envs)
    /\ is_pyinstaller_elf' = is_elf_section(target, "pydata")
    /\ \E p \in Preloads :
         /\ preload' = p
         /\ IF p.exists /\ ~p.readable
            THEN /\ Die(1, "Failed to read .preload file")
                 /\ UNCHANGED interpreter_args
            ELSE /\ interpreter_args' =
                      << interpreter, <<"--library-path">>, library_path,
                         <<"--argv0">>,
                         Argv0For(is_elf_section(target, "pydata")) >>
                      \o (IF p.exists THEN PreloadArgs(p.data) ELSE <<>>)
                      \o <<Bin>>
                      \o exec_args
                 /\ pc' = "exec"
                 /\ UNCHANGED outVars
    /\ UNCHANGED <<invVars, stub, target, files, caches, cachesAtStart, writable, dotenv,
                   nameVars, is_elf32_bin, library_path, interpreter,
                   unset_envs, backend, image, execFailed, exec_args, genBy>>
    /\ UNCHANGED <<cacheVars, dirnameVars, envAux>>

\* One backend for every target.
BackendUserland(frozen) == "userland"

\* The backend of lines 665-681: execve for a frozen target, the user-space
\* exec for any other.
BackendFor(frozen) == IF frozen THEN "execve" ELSE "userland"

\* Lines 665-681: the process replacement.  execve's result is not looked
\* at: when it returns, main ends and the process exits 0 with nothing
\* printed.  userland_execve::exec never returns (its type is !): when it
\* fails the process dies with a message and a non-zero status.
Exec ==
    /\ pc = "exec"
    /\ backend' = BackendFor(is_pyinstaller_elf)
    /\ image' = interpreter
    /\ \E ok \in BOOLEAN :
         /\ execFailed' = ~ok
         /\ IF ok
            THEN pc' = "replaced" /\ UNCHANGED outVars
            ELSE IF BackendFor(is_pyinstaller_elf) = "execve"
            THEN Leave(0) /\ UNCHANGED <<stdout, diag>>
            ELSE Die(101, "userland exec failed")
    /\ UNCHANGED <<invVars, fsVars, nameVars, resVars, interpreter_args,
                   exec_args, genBy, env>>
    /\ UNCHANGED <<cacheVars, dirnameVars, envAux>>

Next ==
    \/ Start
    \/ Version
    \/ Help
    \/ GenLibPathOption
    \/ Lib4bin
    \/ NamedDispatch
    \/ NoArgs
    \/ AppRunMode
    \/ NamedBinary
    \/ ProbeElf
    \/ ReadDotenv
    \/ GetInterpreter
    \/ WorkingDir
    \/ LazyGen
    \/ SynthEnv
    \/ BuildArgs
    \/ Exec

\* ------------------------------------------------------------------------
\* Specifications
\* ------------------------------------------------------------------------

Init ==
    InitCacheIdle /\ InitDirnameIdle /\ InitLaunch
    /\ envOld = <<>> /\ addKey = ListKey /\ addVal = <<>> /\ addCount = 0

Spec == Init /\ [][Next]_vars

CacheHarnessInit ==
    InitCache /\ InitDirnameIdle /\ InitEnvIdle /\ InitLaunchIdle

SpecCache == CacheHarnessInit /\ [][NextCache]_vars

DirnameHarnessInit ==
    InitCacheIdle /\ InitDirname /\ InitEnvIdle /\ InitLaunchIdle

SpecDirname == DirnameHarnessInit /\ [][ApplyDirname]_vars

EnvHarnessInit ==
    InitCacheIdle /\ InitDirnameIdle /\ InitEnv /\ InitLaunchIdle

SpecEnv == EnvHarnessInit /\ [][NextEnv]_vars

\* How many directories the lib.path of the synthesis on its own lists, at
\* most.
MaxCached == 3

\* The directory names it lists.
SynthDirNames ==
    {<<"gconv">>, <<"spa-", "0">>, <<"spa-", "1">>, <<"perl">>, <<"perl", "5">>,
     <<"python", "3">>}

\* The lists of distinct directories of a library root, in the order
\* gen_library_path found them.
CachedLists ==
    {l \in StrUpTo(SynthDirNames, MaxCached) :
       \A i, j \in 1..Len(l) : l[i] = l[j] => i = j}

\* The main of a launch of shared/bin/app by "sharun app" as it reaches line
\* 419, lib.path listing some directories of shared/lib.
SynthHarnessInit ==
    /\ InitCacheIdle /\ InitDirnameIdle
    /\ \E perllib \in {<<>>, <<"/", "opt", "/", "perl">>} :
         env = IF perllib = <<>>
               THEN ("PATH" :> Bundle) @@ ("SHARUN_DIR" :> Bundle)
               ELSE ("PATH" :> Bundle) @@ ("SHARUN_DIR" :> Bundle)
                    @@ ("PERLLIB" :> perllib)
    /\ envOld = <<>> /\ addKey = ListKey /\ addVal = <<>> /\ addCount = 0
    /\ pc = "synth"
    /\ sharun = RootLauncher
    /\ argv = <<RootLauncher, App>>
    /\ links = {}
    /\ stub = NoStub
    /\ target = [exists |-> TRUE, head |-> ElfMagic \o <<2>>,
                 sections |-> {".text"}]
    /\ files = {PathUnder(shared_lib(Bundle), Candidates[1])}
    /\ \E l \in CachedLists :
         caches = (shared_lib(Bundle) :>
                     [exists |-> TRUE,
                      data |-> LibPathText(shared_lib(Bundle),
                                 [i \in 1..Len(l) |->
                                    PathUnder(shared_lib(Bundle), l[i])])])
    /\ cachesAtStart = caches
    /\ writable = FALSE
    /\ preload = NoPreload
    /\ dotenv = NoDotenv
    /\ exec_args = <<>>
    /\ sharun_dir = Bundle
    /\ arg0_path = RootLauncher
    /\ bin_name = App
    /\ is_elf32_bin = FALSE
    /\ library_path = shared_lib(Bundle)
    /\ interpreter = PathUnder(shared_lib(Bundle), Candidates[1])
    /\ unset_envs = <<>>
    /\ is_pyinstaller_elf = FALSE
    /\ interpreter_args = <<>>
    /\ backend = "none"
    /\ image = <<>>
    /\ execFailed = FALSE
    /\ genBy = "none"
    /\ stdout = <<>>
    /\ diag = <<>>
    /\ exitCode = -1

SpecSynth == SynthHarnessInit /\ [][SynthEnv]_vars

\* ------------------------------------------------------------------------
\* Claims
\* ------------------------------------------------------------------------

\* C1: after regeneration and resolution under the same root, the entries of
\* the search path include every non-root directory that directly holds a
\* shared-object file exactly once, as its true absolute path.  (The claim as
\* stated, for any directory names; the code breaks it for a name with '+'.)
C1_EachSoDirOnce ==
    (cphase = "resolved" /\ curRoot = genRoot) =>
        \A d \in SoDirs(layout) :
            CountEntry(searchPath, AbsOf(curRoot, d)) = 1

\* C2: a cache generated under one root and resolved, untouched, under
\* another resolves to the root and the directories of the copied tree that
\* hold shared objects, all under the new root, none mentioning the old one.
C2_RelocatedEntries ==
    (cphase = "resolved" /\ curRoot # genRoot) =>
        /\ {PathEntries(searchPath)[i] : i \in 1..Len(PathEntries(searchPath))}
             = {curRoot} \cup {AbsOf(curRoot, d) : d \in SoDirs(layout)}
        /\ \A i \in 1..Len(PathEntries(searchPath)) :
             /\ StartsWith(PathEntries(searchPath)[i], curRoot)
             /\ ~Contains(PathEntries(searchPath)[i], genRoot)

\* The words main matches as options (lines 256-273).
CliWords ==
    {<<"-v">>, <<"--version">>, <<"-h">>, <<"--help">>, <<"-g">>,
     <<"--gen-lib-path">>, <<"l">>, <<"lib4bin">>}

\* The target file has the section "pydata".
Frozen == "pydata" \in target.sections

\* The interpreter was handed to a process replacement.
Launched == backend \in {"execve", "userland"}

\* C3: in every launch that reaches the final process replacement, a target
\* with the section "pydata" goes through execve with the target's own path
\* after --argv0, and any other target goes through the user-space exec with
\* the invocation path after --argv0; the two are never crossed.
C3_BackendAndArgv0 ==
    Launched =>
        /\ interpreter_args[4] = <<"--argv0">>
        /\ Frozen => (backend = "execve" /\ interpreter_args[5] = Bin)
        /\ ~Frozen => (backend = "userland" /\ interpreter_args[5] = arg0_path)

C3_Witness ==
    /\ pc = "replaced"
    /\ Frozen
    /\ backend = "execve"
    /\ interpreter_args[5] = PathUnder(shared_bin(Bundle), App)
    /\ arg0_path # interpreter_args[5]

\* C4: whenever a process replacement was called and returned, a failure is
\* reported on the standard error and the exit status is not 0.  (The claim
\* as stated; the execve branch breaks it.)
C4_FailedExecIsReported ==
    (pc = "exited" /\ execFailed) =>
        /\ exitCode # 0
        /\ Len(diag) > 0
        /\ diag[Len(diag)] \in
             {"Failed to run", "Failed to run App", "userland exec failed"}

\* The target is a 32-bit ELF file.
Elf32Target ==
    /\ target.exists
    /\ Len(target.head) >= 5
    /\ SubSeq(target.head, 1, 4) = ElfMagic
    /\ target.head[5] = 1

\* The bundle holds the 64-bit root with its interpreter and nothing in
\* shared/lib32.
Only64BitRoot ==
    /\ PathUnder(shared_lib(Bundle), Candidates[1]) \in files
    /\ \A f \in files : PathParent(f) # shared_lib32(Bundle)

\* C5: a 32-bit target in a bundle with only the 64-bit root ends in a fatal
\* error, exit status 1, and no process replacement is attempted, whatever
\* SHARUN_LDNAME is.  (The claim as stated; an override that is an absolute
\* path breaks it.)
C5_No32BitLaunch ==
    (Elf32Target /\ Only64BitRoot) =>
        /\ pc = "exited"
        /\ exitCode = 1
        /\ diag # <<>>
        /\ backend = "none"

\* The target exists and does not start with the ELF signature.
NonElfTarget ==
    /\ target.exists
    /\ (Len(target.head) < 4 \/ SubSeq(target.head, 1, 4) # ElfMagic)

\* C6 as stated: a target that exists and is not an ELF file is fatal: exit
\* status 1, no library root selected, no process replacement of the
\* interpreter.
C6_NonElfIsFatal ==
    NonElfTarget =>
        /\ library_path = <<>>
        /\ ~Launched
        /\ (pc = "exited" /\ backend = "none") => exitCode = 1

\* C6 amended: the probe fails, fatally (exit 1, no library root, no process
\* replacement), only for a target that cannot be opened or is shorter than
\* five bytes; a target of five bytes or more without the ELF signature is
\* taken as not 32-bit, shared/lib is selected and the launch goes on.
C6_ProbeOutcome ==
    [][pc = "probe" =>
         /\ (~target.exists \/ Len(target.head) < 5) =>
              /\ pc' = "exited"
              /\ exitCode' = 1
              /\ diag' = Append(diag, "Failed to check ELF class")
              /\ library_path' = <<>>
              /\ backend' = "none"
         /\ (target.exists /\ Len(target.head) >= 5) =>
              /\ pc' = "dotenv"
              /\ library_path' =
                   IF Elf32Target THEN shared_lib32(sharun_dir)
                   ELSE shared_lib(sharun_dir)]_vars

C6_Witness ==
    /\ pc = "replaced"
    /\ NonElfTarget
    /\ Len(target.head) >= 5
    /\ Launched
    /\ interpreter_args[3] = shared_lib(Bundle)

\* C7: in Self mode with a first argument N that is no option, bin/N is run
\* only if it has the launcher's inode or shared/bin/N does not exist; in
\* every other case bin/N is not run and main goes on to the general path
\* with target shared/bin/N and N removed from the arguments.
C7_NamedDispatch ==
    [][(pc = "dispatch" /\ bin_name = SHARUN_NAME /\ exec_args # <<>>
          /\ exec_args[1] \notin CliWords) =>
         /\ backend' = "command" =>
              /\ stub'.ino = "launcher" \/ ~target'.exists
              /\ image' = PathUnder(bin_dir(sharun_dir), exec_args[1])
         /\ ~(stub'.ino = "launcher" \/ ~target'.exists) =>
              /\ backend' = "none"
              /\ pc' = "probe"
              /\ bin_name' = exec_args[1]
              /\ exec_args' = Tail(exec_args)]_vars

C7_Witness ==
    /\ pc = "replaced"
    /\ Launched
    /\ basename(sharun) = SHARUN_NAME
    /\ arg0_path \notin links
    /\ stub = [exe |-> TRUE, ino |-> "script"]
    /\ target.exists
    /\ bin_name = App
    /\ argv = <<RootLauncher, App, <<"x">> >>
    /\ interpreter_args[Len(interpreter_args)] = <<"x">>
    /\ interpreter_args[Len(interpreter_args) - 1] =
         PathUnder(shared_bin(Bundle), App)

\* The name the launcher was invoked under: the name of argv[0] when that
\* path is a symbolic link to the launcher, else the executable's own name.
InvokedAs ==
    IF arg0_path \in links THEN basename(Head(argv)) ELSE basename(sharun)

\* C8: the option words are acted on only under the canonical name.  Under
\* any other name but AppRun the target is that name, no option is consumed,
\* nothing is printed on the standard output, the -g regeneration never runs,
\* no exit with status 0 happens before the process replacement, and every
\* caller argument is at the tail of the interpreter's argument vector,
\* unchanged and in order, right after the target's path.
C8_OptionsOnlyInSelfMode ==
    (pc \notin {"start"} /\ arg0_path # <<>>) =>
        /\ (stdout # <<>> \/ genBy = "option") => InvokedAs = SHARUN_NAME
        /\ InvokedAs \notin {SHARUN_NAME, <<"AppRun">>} =>
             /\ bin_name = InvokedAs
             /\ exec_args = Tail(argv)
             /\ stdout = <<>>
             /\ genBy # "option"
             /\ backend # "command"
             /\ (pc = "exited" /\ ~execFailed) => exitCode # 0
             /\ Launched =>
                  /\ SubSeq(interpreter_args,
                            Len(interpreter_args) - Len(Tail(argv)) + 1,
                            Len(interpreter_args)) = Tail(argv)
                  /\ interpreter_args[Len(interpreter_args) - Len(Tail(argv))]
                       = PathUnder(shared_bin(sharun_dir), InvokedAs)

C8_Witness ==
    /\ pc = "replaced"
    /\ Launched
    /\ InvokedAs = App
    /\ Tail(argv) = << <<"-g">>, <<"-v">> >>
    /\ interpreter_args[Len(interpreter_args)] = <<"-v">>
    /\ interpreter_args[Len(interpreter_args) - 1] = <<"-g">>

\* C9 as stated: dirname("/a") = "/", dirname of a single-segment relative
\* path = ".", dirname("./a/b") = "./a", and a multi-segment path not
\* starting with '/', '.' or '~' gets a "." prefix.
C9_DirnameAsStated ==
    dDone =>
        /\ dPath = <<"/", "a">> => dOut = <<"/">>
        /\ (dPath # <<>> /\ Len(Split(dPath, "/")) = 1) => dOut = <<".">>
        /\ dPath = <<".", "/", "a", "/", "b">> => dOut = <<".", "/", "a">>
        /\ (Len(Split(dPath, "/")) > 1 /\ dPath[1] \notin {"/", ".", "~"}) =>
             dOut = <<".", "/">> \o PathParent(dPath)

\* C9 amended: as stated, but a single-segment path (no '/') yields the empty
\* string, not ".".
C9_Dirname ==
    dDone =>
        /\ dPath = <<"/", "a">> => dOut = <<"/">>
        /\ Len(Split(dPath, "/")) = 1 => dOut = <<>>
        /\ dPath = <<".", "/", "a", "/", "b">> => dOut = <<".", "/", "a">>
        /\ (Len(Split(dPath, "/")) > 1 /\ dPath[1] \notin {"/", ".", "~"}) =>
             dOut = <<".", "/">> \o PathParent(dPath)

C9_Witness ==
    dDone /\ dPath \in {<<"/", "a">>, <<"a">>, <<".", "/", "a", "/", "b">>,
                        <<"a", "/", "b">>}

\* C10: add_to_env(key, v): an unset or empty variable becomes v; a value
\* that already has v as a substring is left unchanged; otherwise the new
\* value is v ':' old; no other variable changes.  The same holds of the
\* environment after the same call has run a second time (twice = once).
C10_AddToEnv ==
    addCount >= 1 =>
         /\ get_env_var(envOld, addKey) = <<>> =>
              (addKey \in DOMAIN env /\ env[addKey] = addVal)
         /\ (get_env_var(envOld, addKey) # <<>>
               /\ Contains(envOld[addKey], addVal)) => env = envOld
         /\ (get_env_var(envOld, addKey) # <<>>
               /\ ~Contains(envOld[addKey], addVal)) =>
              env[addKey] = addVal \o <<":">> \o envOld[addKey]
         /\ (OtherKey \in DOMAIN env) = (OtherKey \in DOMAIN envOld)
         /\ OtherKey \in DOMAIN env => env[OtherKey] = envOld[OtherKey]

C10_Witness ==
    /\ addCount = 2
    /\ get_env_var(envOld, addKey) = <<"b", ":", "a">>
    /\ addVal = <<"a", "b">>
    /\ env[addKey] = <<"a", "b", ":", "b", ":", "a">>

\* The candidates, by position in the list tried, that resolve to a file
\* directly inside the library root.
InsideRoot(lib, e, present) ==
    LET list == Interpreters(e)
    IN  {i \in 1..Len(list) :
           /\ PathJoin(lib, list[i]) \in present
           /\ PathParent(PathJoin(lib, list[i])) = lib}

\* The interpreter lookup has just ended in its fatal error.
InterpreterNotFound ==
    /\ pc = "exited"
    /\ diag # <<>>
    /\ diag[Len(diag)] = "Interpreter not found!"

\* C11: the interpreter returned is the first candidate, in the order tried,
\* that exists directly inside the library root, so it is always located
\* inside that root; the lookup is fatal (exit 1) exactly when no candidate
\* exists there.  (The claim as stated; an override that is an absolute path
\* is returned from outside the root.)
C11_InterpreterInsideRoot ==
    LET list == Interpreters(env)
        inside == InsideRoot(library_path, env, files)
    IN  /\ pc = "workdir" =>
              /\ inside # {}
              /\ interpreter =
                   PathJoin(library_path,
                            list[CHOOSE i \in inside : \A j \in inside : i <= j])
              /\ PathParent(interpreter) = library_path
        /\ InterpreterNotFound => (inside = {} /\ exitCode = 1)

\* The process has ended in a fatal error: a non-zero exit status, or a
\* process replacement that was called and failed.
FatalExit ==
    /\ pc = "exited"
    /\ (exitCode # 0 \/ execFailed)

\* C12: a launch that ends in a fatal exit has made no persistent change:
\* every lib.path file exists, or not, as the process found it, with the
\* content it had.  (The claim as stated; the lazy generation of lines
\* 414-417 has already written lib.path when .preload turns out unreadable
\* or the process replacement fails.)
C12_NoChangeOnFatalExit ==
    FatalExit => caches = cachesAtStart

\* The libraries .preload lists: its lines, trimmed, that are not blank.
ListedLibraries(p) ==
    LET Named(line) == line # <<>>
    IN  IF p.exists /\ p.readable
        THEN SelectSeq(TrimEach(Split(p.data, "\n")), Named)
        ELSE <<>>

\* C13: the argument vector is the interpreter, "--library-path", the
\* resolved search path, "--argv0", the spoofed argv[0], then "--preload"
\* and the listed libraries joined by single spaces if and only if .preload
\* lists a library, then the target and the caller's remaining arguments in
\* their order.  (The claim as stated; a .preload that can be read and lists
\* nothing still yields "--preload" with an empty value.)
C13_ArgumentVector ==
    pc = "exec" =>
        interpreter_args =
            << interpreter, <<"--library-path">>, library_path, <<"--argv0">>,
               Argv0For(is_pyinstaller_elf) >>
            \o (IF ListedLibraries(preload) # <<>>
                THEN << <<"--preload">>, Join(ListedLibraries(preload), <<" ">>) >>
                ELSE <<>>)
            \o <<Bin>>
            \o exec_args

\* C14: the environment handed to the target is a function of the bundle,
\* lib.path and the initial environment alone: whatever order the cached
\* directory names are visited in, every variable ends with the same value.
\* (The claim as stated; two names under one rule, such as two spa-*
\* directories or perl and perl5, give a result that depends on the order in
\* which the HashSet yields them.)
C14_EnvIndependentOfOrder ==
    pc = "args" =>
        \A order \in Orders(CachedDirs(caches[RootFor(is_elf32_bin)].data)) :
            env = SynthesizedEnv(envOld, order, RootFor(is_elf32_bin), sharun_dir)

====
